---- MODULE Spec2Model ----
(***************************************************************************)
(* Model of the goadmin "myapp" sample: the sqlite DAO layer               *)
(* (dao_sqlite.go), the start-up routine initDaos and the control-panel    *)
(* request handlers (bootstrap.go).                                        *)
(*                                                                         *)
(* Strings are sequences of one-character strings, so that                 *)
(* strings.ToLower and strings.TrimSpace are computed, not assumed.        *)
(* A table is the set of its rows; the primary key is enforced by the      *)
(* engine's insert, not by the representation.                             *)
(***************************************************************************)
EXTENDS Naturals, Sequences, FiniteSets, TLC

(* ---------------------------------------------------------------- bounds *)
\* longest raw id handed to the DAO in the DAO-level specification
MaxIdLen == 1
\* requests accepted by the middleware in the application specification
MaxReq == 2

(* --------------------------------------------------------------- strings *)
Nil == [nil |-> TRUE]

\* the characters raw ids are built from in the DAO-level specification
IdAlphabet == {"g", "G", " "}

ToLowerChar(c) ==
    CASE c = "A" -> "a"
      [] c = "G" -> "g"
      [] c = "S" -> "s"
      [] c = "U" -> "u"
      [] c = "N" -> "n"
      [] OTHER -> c

\* strings.ToLower
ToLower(s) == [i \in 1..Len(s) |-> ToLowerChar(s[i])]

RECURSIVE TrimLeft(_)
TrimLeft(s) == IF s # <<>> /\ Head(s) = " " THEN TrimLeft(Tail(s)) ELSE s

RECURSIVE TrimRight(_)
TrimRight(s) ==
    IF s # <<>> /\ s[Len(s)] = " " THEN TrimRight(SubSeq(s, 1, Len(s) - 1)) ELSE s

\* strings.TrimSpace
TrimSpace(s) == TrimRight(TrimLeft(s))

RECURSIVE StringsUpTo(_, _)
StringsUpTo(alphabet, n) ==
    IF n = 0 THEN {<<>>}
    ELSE LET shorter == StringsUpTo(alphabet, n - 1)
         IN  shorter \cup {Append(s, c) : s \in shorter, c \in alphabet}

(* ------------------------------------------------- names of fields, columns *)
fieldGroupId == "id"
fieldGroupName == "name"
colGroupId == "gid"
colGroupName == "gname"
colsGroup == <<colGroupId, colGroupName>>
mapFieldToColNameGroup == (fieldGroupId :> colGroupId) @@ (fieldGroupName :> colGroupName)
mapColNameToFieldGroup == (colGroupId :> fieldGroupId) @@ (colGroupName :> fieldGroupName)

fieldUserUsername == "username"
fieldUserPassword == "password"
fieldUserName == "name"
fieldUserGroupId == "gid"
colUserUsername == "uname"
colUserPassword == "upwd"
colUserName == "display_name"
colUserGroupId == "gid"
colsUser == <<colUserUsername, colUserPassword, colUserName, colUserGroupId>>
mapFieldToColNameUser ==
    (fieldUserUsername :> colUserUsername) @@ (fieldUserPassword :> colUserPassword)
        @@ (fieldUserName :> colUserName) @@ (fieldUserGroupId :> colUserGroupId)
mapColNameToFieldUser ==
    (colUserUsername :> fieldUserUsername) @@ (colUserPassword :> fieldUserPassword)
        @@ (colUserName :> fieldUserName) @@ (colUserGroupId :> fieldUserGroupId)

Range(f) == {f[i] : i \in DOMAIN f}

(* ------------------------------------------------------- the generic engine *)
\* What the storage engine does with one call: "ok" executes the statement,
\* "fail" is a transport/SQL failure, "zero" is an insert that reports no
\* affected row and no error (the case initDaos tests with `!result`).
ReadOutcomes == {"ok", "fail"}
WriteOutcomes == {"ok", "fail"}
CreateOutcomes == {"ok", "zero", "fail"}

\* row mapper: attribute bag (field names) -> row (column names)
ToRow(gbo, cols, colToField) ==
    [c \in Range(cols) |-> gbo[colToField[c]]]

\* row mapper: row (column names) -> attribute bag (field names)
ToGbo(row, fieldToCol) ==
    [f \in DOMAIN fieldToCol |-> row[fieldToCol[f]]]

\* INSERT under the PRIMARY KEY (keyCol) constraint
GdaoCreate(table, keyCol, row, o) ==
    IF o = "fail" THEN [numRows |-> 0, err |-> "storage", table |-> table]
    ELSE IF \E r \in table : r[keyCol] = row[keyCol]
         THEN [numRows |-> 0, err |-> "duplicate", table |-> table]
    ELSE IF o = "zero" THEN [numRows |-> 0, err |-> "none", table |-> table]
    ELSE [numRows |-> 1, err |-> "none", table |-> table \cup {row}]

\* SELECT ... WHERE keyCol = v, at most one row
GdaoFetchOne(table, keyCol, v, fieldToCol, o) ==
    IF o = "fail" THEN [gbo |-> Nil, err |-> "storage"]
    ELSE IF \E r \in table : r[keyCol] = v
         THEN [gbo |-> ToGbo(CHOOSE r \in table : r[keyCol] = v, fieldToCol),
               err |-> "none"]
    ELSE [gbo |-> Nil, err |-> "none"]

\* UPDATE ... SET <non-key columns> WHERE keyCol = row[keyCol]
GdaoUpdate(table, keyCol, row, o) ==
    IF o = "fail" THEN [numRows |-> 0, err |-> "storage", table |-> table]
    ELSE LET hit == {r \in table : r[keyCol] = row[keyCol]}
         IN  [numRows |-> Cardinality(hit), err |-> "none",
              table |-> (table \ hit) \cup {row : r \in hit}]

\* DELETE ... WHERE keyCol = v
GdaoDelete(table, keyCol, v, o) ==
    IF o = "fail" THEN [numRows |-> 0, err |-> "storage", table |-> table]
    ELSE LET hit == {r \in table : r[keyCol] = v}
         IN  [numRows |-> Cardinality(hit), err |-> "none", table |-> table \ hit]

(* ------------------------------------------------------------- GroupDaoSqlite *)
\* faulty variant of toBo: the two attributes are read into the wrong fields
GroupToBoSwapped(gbo) ==
    IF gbo = Nil THEN Nil
    ELSE [Id |-> gbo[fieldGroupName], Name |-> gbo[fieldGroupId]]

GroupToBo(gbo) ==
    IF gbo = Nil THEN Nil
    ELSE [Id |-> gbo[fieldGroupId], Name |-> gbo[fieldGroupName]]

GroupToGbo(bo) ==
    IF bo = Nil THEN Nil
    ELSE (fieldGroupId :> bo.Id) @@ (fieldGroupName :> bo.Name)

\* faulty variants of Create: the name is stored untrimmed; the id is stored as given
GroupDaoCreateRawName(table, id, name, o) ==
    LET bo == [Id |-> ToLower(TrimSpace(id)), Name |-> name]
        r == GdaoCreate(table, colGroupId,
                        ToRow(GroupToGbo(bo), colsGroup, mapColNameToFieldGroup), o)
    IN  [ok |-> r.numRows > 0, err |-> r.err, table |-> r.table]

GroupDaoCreateRawId(table, id, name, o) ==
    LET bo == [Id |-> id, Name |-> TrimSpace(name)]
        r == GdaoCreate(table, colGroupId,
                        ToRow(GroupToGbo(bo), colsGroup, mapColNameToFieldGroup), o)
    IN  [ok |-> r.numRows > 0, err |-> r.err, table |-> r.table]

GroupDaoCreate(table, id, name, o) ==
    LET bo == [Id |-> ToLower(TrimSpace(id)), Name |-> TrimSpace(name)]
        r == GdaoCreate(table, colGroupId,
                        ToRow(GroupToGbo(bo), colsGroup, mapColNameToFieldGroup), o)
    IN  [ok |-> r.numRows > 0, err |-> r.err, table |-> r.table]

\* faulty variant of Get: the engine's error is dropped
GroupDaoGetDropsError(table, id, o) ==
    LET r == GdaoFetchOne(table, colGroupId, id, mapFieldToColNameGroup, o)
    IN  [bo |-> GroupToBo(r.gbo), err |-> "none"]

GroupDaoGet(table, id, o) ==
    LET r == GdaoFetchOne(table, colGroupId, id, mapFieldToColNameGroup, o)
    IN  IF r.err # "none" THEN [bo |-> Nil, err |-> r.err]
        ELSE [bo |-> GroupToBo(r.gbo), err |-> "none"]


\* GroupDao.Update: struct -> bag -> engine update by key
GroupDaoUpdate(table, bo, o) ==
    LET r == GdaoUpdate(table, colGroupId,
                        ToRow(GroupToGbo(bo), colsGroup, mapColNameToFieldGroup), o)
    IN  [ok |-> r.numRows > 0, err |-> r.err, table |-> r.table]

\* GroupDao.Delete: engine delete by the entity's key
GroupDaoDelete(table, bo, o) ==
    LET r == GdaoDelete(table, colGroupId, bo.Id, o)
    IN  [ok |-> r.numRows > 0, err |-> r.err, table |-> r.table]

(* ------------------------------------------------------------------- UserDao *)
UserToBo(gbo) ==
    IF gbo = Nil THEN Nil
    ELSE [Username |-> gbo[fieldUserUsername], Password |-> gbo[fieldUserPassword],
          Name |-> gbo[fieldUserName], GroupId |-> gbo[fieldUserGroupId]]

UserToGbo(bo) ==
    IF bo = Nil THEN Nil
    ELSE (fieldUserUsername :> bo.Username) @@ (fieldUserPassword :> bo.Password)
            @@ (fieldUserName :> bo.Name) @@ (fieldUserGroupId :> bo.GroupId)

UserDaoCreate(table, username, encryptedPassword, name, groupId, o) ==
    LET bo == [Username |-> ToLower(TrimSpace(username)),
               Password |-> encryptedPassword,
               Name |-> TrimSpace(name),
               GroupId |-> ToLower(TrimSpace(groupId))]
        r == GdaoCreate(table, colUserUsername,
                        ToRow(UserToGbo(bo), colsUser, mapColNameToFieldUser), o)
    IN  [ok |-> r.numRows > 0, err |-> r.err, table |-> r.table]

UserDaoGet(table, username, o) ==
    LET r == GdaoFetchOne(table, colUserUsername, username, mapFieldToColNameUser, o)
    IN  IF r.err # "none" THEN [bo |-> Nil, err |-> r.err]
        ELSE [bo |-> UserToBo(r.gbo), err |-> "none"]

UserDaoUpdate(table, bo, o) ==
    LET r == GdaoUpdate(table, colUserUsername,
                        ToRow(UserToGbo(bo), colsUser, mapColNameToFieldUser), o)
    IN  [ok |-> r.numRows > 0, err |-> r.err, table |-> r.table]

UserDaoDelete(table, bo, o) ==
    LET r == GdaoDelete(table, colUserUsername, bo.Username, o)
    IN  [ok |-> r.numRows > 0, err |-> r.err, table |-> r.table]

(* ------------------------------------------------- application constants *)
SystemGroupId == <<"s">>
\* "System User Group"
SystemGroupName == <<"S", "G">>
AdminUserUsernname == <<"a">>
AdminUserName == <<"A">>
\* "s3cr3t"
DefaultPassword == <<"p">>

\* One-way, username-keyed password transform. The marker "#" occurs in no
\* plaintext, so an encoded value is never equal to a plaintext; distinct
\* (username, password) pairs give distinct values.
encryptPassword(username, rawPassword) ==
    <<"#">> \o username \o <<":">> \o rawPassword

(* ---------------------------------------------------------- request inputs *)
GroupIdInputs == {<<"s">>, <<"g">>, <<" ", "S">>}
NameInputs == {<<"n">>, <<"m", " ">>}
UserNameInputs == {<<"n", " ">>}
UsernameInputs == {<<"a">>, <<"u">>, <<"U", " ">>}
UserGroupInputs == {<<"s">>, <<"G">>}
PwdInputs == {<<>>, DefaultPassword, <<"q">>}
Workers == {1, 2}
Ops == {"changePassword", "createGroup", "editGroup", "deleteGroup",
        "createUser", "editUser", "deleteUser"}

\* rows a store may hold before the first start (tables are created IF NOT EXISTS)
SystemGroupRow == (colGroupId :> SystemGroupId) @@ (colGroupName :> SystemGroupName)
AdminRow(gid) ==
    (colUserUsername :> AdminUserUsernname)
        @@ (colUserPassword :> encryptPassword(AdminUserUsernname, DefaultPassword))
        @@ (colUserName :> AdminUserName) @@ (colUserGroupId :> gid)
PriorGroupTables == {{}, {SystemGroupRow}}
PriorUserTables == {{}, {AdminRow(SystemGroupId)}, {AdminRow(<<"g">>)}}

(* ------------------------------------------------------------------- state *)
VARIABLES
    groups,     \* table myapp_group: set of rows
    users,      \* table myapp_user: set of rows
    pcBoot,     \* position of initDaos: getGroup, createGroup, getUser, createUser, done, panic
    nReq,       \* requests accepted in this run
    w,          \* per worker: the request it is serving
    loggedIn,   \* usernames for which a session cookie exists
    boot,       \* history of the current initDaos run
    resp,       \* the last response sent: the handler and what it answered
    dao,        \* DAO-level specification: the last DAO call and its result
    note        \* history: what the last middleware or responding step met in the store

vars == <<groups, users, pcBoot, nReq, w, loggedIn, boot, resp, dao, note>>

IdleWorker == [pc |-> "idle", op |-> "none", uid |-> <<>>, ent |-> Nil, adm |-> FALSE]
NoResp == [op |-> "none", out |-> "none"]
NoCall == [op |-> "none"]
\* what the current initDaos run found and did: whether it follows a run that
\* returned normally, whether both tables were empty when it started, whether
\* the system group and the admin user were stored then, how many Create calls
\* it made, whether one of them returned false, whether it changed a table,
\* and whether a DAO call of it failed in the storage
BootStart(g, u, again) ==
    [again |-> again,
     empty |-> g = {} /\ u = {},
     createFailed |-> FALSE,
     hadGroup |-> \E row \in g : row[colGroupId] = SystemGroupId,
     hadUser |-> \E row \in u : row[colUserUsername] = AdminUserUsernname,
     creates |-> 0, changed |-> FALSE, failed |-> FALSE]

Init ==
    /\ groups \in PriorGroupTables
    /\ users \in PriorUserTables
    /\ pcBoot = "getGroup"
    /\ nReq = 0
    /\ w = [r \in Workers |-> IdleWorker]
    /\ loggedIn = {}
    /\ boot = BootStart(groups, users, FALSE)
    /\ resp = NoResp
    /\ dao = NoCall
    /\ note = "none"

(* ----------------------------------------------------------------- initDaos *)
\* faulty variant of the first step: the group is created whether or not it was found
InitGetGroupAlwaysCreates(o) ==
    /\ pcBoot = "getGroup"
    /\ LET g == GroupDaoGet(groups, SystemGroupId, o)
       IN  /\ pcBoot' = IF g.err # "none" THEN "panic" ELSE "createGroup"
           /\ boot' = [boot EXCEPT !.failed = @ \/ g.err = "storage"]
    /\ UNCHANGED <<groups, users, nReq, w, loggedIn, resp, dao, note>>

\* systemGroup, err := groupDao.Get(SystemGroupId)
InitGetGroup(o) ==
    /\ pcBoot = "getGroup"
    /\ LET g == GroupDaoGet(groups, SystemGroupId, o)
       IN  /\ pcBoot' = IF g.err # "none" THEN "panic"
                        ELSE IF g.bo = Nil THEN "createGroup" ELSE "getUser"
           /\ boot' = [boot EXCEPT !.failed = @ \/ g.err = "storage"]
    /\ UNCHANGED <<groups, users, nReq, w, loggedIn, resp, dao, note>>

\* result, err := groupDao.Create(SystemGroupId, "System User Group")
InitCreateGroup(o) ==
    /\ pcBoot = "createGroup"
    /\ LET c == GroupDaoCreate(groups, SystemGroupId, SystemGroupName, o)
       IN  /\ groups' = c.table
           /\ pcBoot' = IF c.err # "none" THEN "panic" ELSE "getUser"
           /\ boot' = [boot EXCEPT !.creates = @ + 1,
                                   !.createFailed = @ \/ ~c.ok,
                                   !.changed = @ \/ c.table # groups,
                                   !.failed = @ \/ c.err = "storage"]
    /\ UNCHANGED <<users, nReq, w, loggedIn, resp, dao, note>>

\* adminUser, err := userDao.Get(AdminUserUsernname)
InitGetUser(o) ==
    /\ pcBoot = "getUser"
    /\ LET u == UserDaoGet(users, AdminUserUsernname, o)
       IN  /\ pcBoot' = IF u.err # "none" THEN "panic"
                        ELSE IF u.bo = Nil THEN "createUser" ELSE "done"
           /\ boot' = [boot EXCEPT !.failed = @ \/ u.err = "storage"]
    /\ UNCHANGED <<groups, users, nReq, w, loggedIn, resp, dao, note>>

\* result, err := userDao.Create(AdminUserUsernname, encryptPassword(...), AdminUserName, SystemGroupId)
InitCreateUser(o) ==
    /\ pcBoot = "createUser"
    /\ LET c == UserDaoCreate(users, AdminUserUsernname,
                              encryptPassword(AdminUserUsernname, DefaultPassword),
                              AdminUserName, SystemGroupId, o)
       IN  /\ users' = c.table
           /\ pcBoot' = IF c.err # "none" THEN "panic" ELSE "done"
           /\ boot' = [boot EXCEPT !.creates = @ + 1,
                                   !.createFailed = @ \/ ~c.ok,
                                   !.changed = @ \/ c.table # users,
                                   !.failed = @ \/ c.err = "storage"]
    /\ UNCHANGED <<groups, nReq, w, loggedIn, resp, dao, note>>

\* the process is started again on the same database file
Restart ==
    /\ pcBoot \in {"done", "panic"}
    /\ pcBoot' = "getGroup"
    /\ w' = [r \in Workers |-> IdleWorker]
    /\ boot' = BootStart(groups, users, pcBoot = "done")
    /\ UNCHANGED <<groups, users, nReq, loggedIn, resp, dao, note>>


(* ------------------------------------------------------- request handling *)
\* the handler returns: the response is rendered or redirected; met is what
\* the step met in the store ("none" when nothing worth a note)
Respond(r, result, met) ==
    /\ w' = [w EXCEPT ![r] = IdleWorker]
    /\ resp' = [op |-> w[r].op, out |-> result]
    /\ note' = met

Finish(r, result) == Respond(r, result, "none")

\* the handler goes on to its write; adm tells whether its permission check
\* found the requester stored with GroupId = SystemGroupId (FALSE for the
\* handlers that make no permission check)
Proceed(r, entity, adm) ==
    /\ w' = [w EXCEPT ![r] = [@ EXCEPT !.pc = "write", !.uid = <<>>, !.ent = entity,
                                       !.adm = adm]]
    /\ UNCHANGED <<resp, note>>

\* getCurrentUser(c): the session's user, looked up again in the store
getCurrentUser(r, o) == UserDaoGet(users, w[r].uid, o)

\* whether the looked-up requester is stored in the system group; recorded in
\* the worker when a handler goes on to its write
InSystemGroup(cu) == cu.err = "none" /\ cu.bo # Nil /\ cu.bo.GroupId = SystemGroupId

\* faulty variant of the guard: any stored requester may go on
CheckAdminAnyUser(cu) ==
    IF cu.err # "none" THEN "db_error"
    ELSE IF cu.bo = Nil THEN "no_permission"
    ELSE "none"

\* the guard shared by checkCpCreateGroup, checkCpDeleteGroup, checkCpCreateUser,
\* checkCpEditUser and checkCpDeleteUser; "none" when the requester may go on
CheckAdmin(cu) ==
    IF cu.err # "none" THEN "db_error"
    ELSE IF cu.bo = Nil \/ cu.bo.GroupId # SystemGroupId THEN "no_permission"
    ELSE "none"

\* actionCpLoginSubmit
Login(username, password, o) ==
    /\ pcBoot = "done"
    /\ LET u == UserDaoGet(users, username, o)
       IN  /\ u.err = "none"
           /\ u.bo # Nil
           /\ encryptPassword(u.bo.Username, password) = u.bo.Password
           /\ u.bo.Username \notin loggedIn
           /\ loggedIn' = loggedIn \cup {u.bo.Username}
    /\ UNCHANGED <<groups, users, pcBoot, nReq, w, boot, resp, dao, note>>

\* what the middleware's lookup of the session's user met: a failed lookup
\* ("error"), no row under the session's uid ("gone"), or nothing to note
SessionLookup(has, uid, o) ==
    IF ~has THEN "none"
    ELSE IF o = "fail" THEN "error"
    ELSE IF ~(\E row \in users : row[colUserUsername] = uid) THEN "gone"
    ELSE "none"

\* faulty variant: the routes answer while initDaos has not returned
MiddlewareBeforeBootstrap(r, op, has, uid, o) ==
    /\ w[r].pc = "idle"
    /\ \A q \in Workers : w[q].pc = "idle" => r <= q
    /\ nReq < MaxReq
    /\ nReq' = nReq + 1
    /\ LET u == IF has THEN UserDaoGet(users, uid, o) ELSE [bo |-> Nil, err |-> "none"]
           met == SessionLookup(has, uid, o)
       IN  /\ note' = met
           /\ IF u.bo = Nil
              THEN /\ resp' = [op |-> op, out |-> "login"]
                   /\ UNCHANGED w
              ELSE /\ w' = [w EXCEPT ![r] = [pc |-> "handler", op |-> op, uid |-> uid,
                                             ent |-> Nil, adm |-> FALSE]]
                   /\ UNCHANGED resp
    /\ UNCHANGED <<groups, users, pcBoot, loggedIn, boot, dao>>

\* faulty variant: a request that carries a session is let through unchecked
MiddlewareTrustsSession(r, op, has, uid, o) ==
    /\ pcBoot = "done"
    /\ w[r].pc = "idle"
    /\ \A q \in Workers : w[q].pc = "idle" => r <= q
    /\ nReq < MaxReq
    /\ nReq' = nReq + 1
    /\ LET u == IF has THEN UserDaoGet(users, uid, o) ELSE [bo |-> Nil, err |-> "none"]
           met == SessionLookup(has, uid, o)
       IN  /\ note' = met
           /\ IF ~has
              THEN /\ resp' = [op |-> op, out |-> "login"]
                   /\ UNCHANGED w
              ELSE /\ w' = [w EXCEPT ![r] = [pc |-> "handler", op |-> op, uid |-> uid,
                                             ent |-> Nil, adm |-> FALSE]]
                   /\ UNCHANGED resp
    /\ UNCHANGED <<groups, users, pcBoot, loggedIn, boot, dao>>

\* middlewareRequiredAuth, in front of every /cp handler
Middleware(r, op, has, uid, o) ==
    /\ pcBoot = "done"
    /\ w[r].pc = "idle"
    /\ \A q \in Workers : w[q].pc = "idle" => r <= q
    /\ nReq < MaxReq
    /\ nReq' = nReq + 1
    /\ LET u == IF has THEN UserDaoGet(users, uid, o) ELSE [bo |-> Nil, err |-> "none"]
           met == SessionLookup(has, uid, o)
       IN  /\ note' = met
           /\ IF u.bo = Nil
              THEN /\ resp' = [op |-> op, out |-> "login"]
                   /\ UNCHANGED w
              ELSE /\ w' = [w EXCEPT ![r] = [pc |-> "handler", op |-> op, uid |-> uid,
                                             ent |-> Nil, adm |-> FALSE]]
                   /\ UNCHANGED resp
    /\ UNCHANGED <<groups, users, pcBoot, loggedIn, boot, dao>>

At(r, op, pc) == pcBoot = "done" /\ w[r].op = op /\ w[r].pc = pc

\* what an Update that returned no error met: no row under the key ("missed"),
\* a row that is no longer the one the handler read ("lost": the write replaces
\* what another request stored in between), or the row as read ("none")
UpdateNote(table, keyCol, row, err) ==
    IF err # "none" THEN "none"
    ELSE IF ~(\E x \in table : x[keyCol] = row[keyCol]) THEN "missed"
    ELSE IF row \notin table THEN "lost"
    ELSE "none"

UserRowOf(bo) == ToRow(UserToGbo(bo), colsUser, mapColNameToFieldUser)
GroupRowOf(bo) == ToRow(GroupToGbo(bo), colsGroup, mapColNameToFieldGroup)

\* actionCpChangePasswordSubmit, up to the password checks
ChangePasswordCheck(r, o) ==
    /\ At(r, "changePassword", "handler")
    /\ LET cu == getCurrentUser(r, o)
       IN  IF cu.err # "none" THEN Finish(r, "db_error")
           ELSE IF cu.bo = Nil THEN Finish(r, "redirect")
           ELSE IF cu.bo.Username = AdminUserUsernname THEN Finish(r, "protected")
           ELSE Proceed(r, cu.bo, FALSE)
    /\ UNCHANGED <<groups, users, pcBoot, nReq, loggedIn, boot, dao>>

\* faulty variant: the new password is stored as typed
ChangedPasswordPlain(currentUser, pwd) ==
    [currentUser EXCEPT !.Password = pwd]

\* currentUser.Password = encryptPassword(currentUser.Username, pwd)
ChangedPassword(currentUser, pwd) ==
    [currentUser EXCEPT !.Password = encryptPassword(currentUser.Username, pwd)]

\* faulty variant: only the password of the row as stored now is replaced, so
\* what another request wrote to the other fields in between is kept
ChangePasswordWriteMerges(r, currentPassword, password, password2, o) ==
    /\ At(r, "changePassword", "write")
    /\ LET currentUser == w[r].ent
           stored == UserDaoGet(users, currentUser.Username, "ok").bo
           currentPwd == TrimSpace(currentPassword)
           pwd == TrimSpace(password)
           pwd2 == TrimSpace(password2)
       IN  IF encryptPassword(currentUser.Username, currentPwd) # currentUser.Password
                \/ pwd = <<>> \/ pwd # pwd2
           THEN Finish(r, "invalid") /\ UNCHANGED users
           ELSE LET u == UserDaoUpdate(users,
                             ChangedPassword(IF stored = Nil THEN currentUser ELSE stored, pwd), o)
                IN  /\ users' = u.table
                    /\ Respond(r, IF u.err # "none" THEN u.err ELSE "ok",
                               UpdateNote(users, colUserUsername, UserRowOf(currentUser),
                                          u.err))
    /\ UNCHANGED <<groups, pcBoot, nReq, loggedIn, boot, dao>>

\* actionCpChangePasswordSubmit, from the form to userDao.Update
ChangePasswordWrite(r, currentPassword, password, password2, o) ==
    /\ At(r, "changePassword", "write")
    /\ LET currentUser == w[r].ent
           currentPwd == TrimSpace(currentPassword)
           pwd == TrimSpace(password)
           pwd2 == TrimSpace(password2)
       IN  IF encryptPassword(currentUser.Username, currentPwd) # currentUser.Password
                \/ pwd = <<>> \/ pwd # pwd2
           THEN Finish(r, "invalid") /\ UNCHANGED users
           ELSE LET u == UserDaoUpdate(users, ChangedPassword(currentUser, pwd), o)
                IN  /\ users' = u.table
                    /\ Respond(r, IF u.err # "none" THEN u.err ELSE "ok",
                               UpdateNote(users, colUserUsername, UserRowOf(currentUser),
                                          u.err))
    /\ UNCHANGED <<groups, pcBoot, nReq, loggedIn, boot, dao>>

\* actionCpCreateGroupSubmit: checkCpCreateGroup, the form, groupDao.Get
CreateGroupCheck(r, id, oc, og) ==
    /\ At(r, "createGroup", "handler")
    /\ LET cu == getCurrentUser(r, oc)
           denied == CheckAdmin(cu)
           gid == ToLower(TrimSpace(id))
           existing == GroupDaoGet(groups, gid, og)
       IN  IF denied # "none" THEN Finish(r, denied)
           ELSE IF gid = <<>> THEN Finish(r, "invalid")
           ELSE IF existing.err # "none" THEN Finish(r, "db_error")
           ELSE IF existing.bo # Nil THEN Finish(r, "existed")
           ELSE Proceed(r, [Id |-> gid], InSystemGroup(cu))
    /\ UNCHANGED <<groups, users, pcBoot, nReq, loggedIn, boot, dao>>

\* faulty variant of the create: the error of groupDao.Create is not looked at
CreateGroupWriteIgnoresError(r, name, o) ==
    /\ At(r, "createGroup", "write")
    /\ LET c == GroupDaoCreate(groups, w[r].ent.Id, TrimSpace(name), o)
       IN  /\ groups' = c.table
           /\ Finish(r, "ok")
    /\ UNCHANGED <<users, pcBoot, nReq, loggedIn, boot, dao>>

\* actionCpCreateGroupSubmit: groupDao.Create
CreateGroupWrite(r, name, o) ==
    /\ At(r, "createGroup", "write")
    /\ LET c == GroupDaoCreate(groups, w[r].ent.Id, TrimSpace(name), o)
       IN  /\ groups' = c.table
           /\ Finish(r, IF c.err # "none" THEN c.err ELSE "ok")
    /\ UNCHANGED <<users, pcBoot, nReq, loggedIn, boot, dao>>

\* actionCpEditGroupSubmit: checkCpEditGroup
EditGroupCheck(r, gid, o) ==
    /\ At(r, "editGroup", "handler")
    /\ LET g == GroupDaoGet(groups, gid, o)
       IN  IF g.err # "none" THEN Finish(r, "db_error")
           ELSE IF g.bo = Nil THEN Finish(r, "not_found")
           ELSE Proceed(r, g.bo, FALSE)
    /\ UNCHANGED <<groups, users, pcBoot, nReq, loggedIn, boot, dao>>

\* faulty variant: when the Update changed no row the group is stored anew
EditGroupWriteRestores(r, name, o) ==
    /\ At(r, "editGroup", "write")
    /\ LET edited == [w[r].ent EXCEPT !.Name = TrimSpace(name)]
           u == GroupDaoUpdate(groups, edited, o)
       IN  /\ groups' = IF u.err = "none" /\ ~u.ok
                        THEN GroupDaoCreate(groups, edited.Id, edited.Name, "ok").table
                        ELSE u.table
           /\ Respond(r, IF u.err # "none" THEN u.err ELSE "ok",
                      UpdateNote(groups, colGroupId, GroupRowOf(w[r].ent), u.err))
    /\ UNCHANGED <<users, pcBoot, nReq, loggedIn, boot, dao>>

\* actionCpEditGroupSubmit: groupDao.Update
EditGroupWrite(r, name, o) ==
    /\ At(r, "editGroup", "write")
    /\ LET u == GroupDaoUpdate(groups, [w[r].ent EXCEPT !.Name = TrimSpace(name)], o)
       IN  /\ groups' = u.table
           /\ Respond(r, IF u.err # "none" THEN u.err ELSE "ok",
                      UpdateNote(groups, colGroupId, GroupRowOf(w[r].ent), u.err))
    /\ UNCHANGED <<users, pcBoot, nReq, loggedIn, boot, dao>>

\* actionCpDeleteGroupSubmit: checkCpDeleteGroup
DeleteGroupCheck(r, gid, oc, og) ==
    /\ At(r, "deleteGroup", "handler")
    /\ LET cu == getCurrentUser(r, oc)
           denied == CheckAdmin(cu)
           g == GroupDaoGet(groups, gid, og)
       IN  IF denied # "none" THEN Finish(r, denied)
           ELSE IF g.err # "none" THEN Finish(r, "db_error")
           ELSE IF g.bo = Nil THEN Finish(r, "not_found")
           ELSE IF g.bo.Id = SystemGroupId THEN Finish(r, "protected")
           ELSE Proceed(r, g.bo, InSystemGroup(cu))
    /\ UNCHANGED <<groups, users, pcBoot, nReq, loggedIn, boot, dao>>

\* actionCpDeleteGroupSubmit: groupDao.Delete
DeleteGroupWrite(r, o) ==
    /\ At(r, "deleteGroup", "write")
    /\ LET d == GroupDaoDelete(groups, w[r].ent, o)
       IN  /\ groups' = d.table
           /\ Finish(r, IF d.err # "none" THEN d.err ELSE "ok")
    /\ UNCHANGED <<users, pcBoot, nReq, loggedIn, boot, dao>>

\* actionCpCreateUserSubmit: checkCpCreateUser, the form, userDao.Get
CreateUserCheck(r, username, oc, og) ==
    /\ At(r, "createUser", "handler")
    /\ LET cu == getCurrentUser(r, oc)
           denied == CheckAdmin(cu)
           uname == ToLower(TrimSpace(username))
           existing == UserDaoGet(users, uname, og)
       IN  IF denied # "none" THEN Finish(r, denied)
           ELSE IF uname = <<>> THEN Finish(r, "invalid")
           ELSE IF existing.err # "none" THEN Finish(r, "db_error")
           ELSE IF existing.bo # Nil THEN Finish(r, "existed")
           ELSE Proceed(r, [Username |-> uname], InSystemGroup(cu))
    /\ UNCHANGED <<groups, users, pcBoot, nReq, loggedIn, boot, dao>>

\* actionCpCreateUserSubmit: the password checks and userDao.Create
CreateUserWrite(r, password, password2, name, group, o) ==
    /\ At(r, "createUser", "write")
    /\ LET pwd == TrimSpace(password)
           pwd2 == TrimSpace(password2)
           user == [Username |-> w[r].ent.Username,
                    Password |-> encryptPassword(w[r].ent.Username, pwd),
                    Name |-> TrimSpace(name),
                    GroupId |-> ToLower(TrimSpace(group))]
       IN  IF pwd = <<>> \/ pwd # pwd2
           THEN Finish(r, "invalid") /\ UNCHANGED users
           ELSE LET c == UserDaoCreate(users, user.Username, user.Password,
                                       user.Name, user.GroupId, o)
                IN  /\ users' = c.table
                    /\ Finish(r, IF c.err # "none" THEN c.err ELSE "ok")
    /\ UNCHANGED <<groups, pcBoot, nReq, loggedIn, boot, dao>>

\* faulty variant of the target lookup: the admin account is not turned away
CheckUserTargetAnyUser(r, username, oc, og) ==
    LET cu == getCurrentUser(r, oc)
        denied == CheckAdmin(cu)
        u == UserDaoGet(users, username, og)
    IN  IF denied # "none" THEN Finish(r, denied)
        ELSE IF u.err # "none" THEN Finish(r, "db_error")
        ELSE IF u.bo = Nil THEN Finish(r, "not_found")
        ELSE Proceed(r, u.bo, InSystemGroup(cu))

\* the target lookup shared by checkCpEditUser and checkCpDeleteUser
CheckUserTarget(r, username, oc, og) ==
    LET cu == getCurrentUser(r, oc)
        denied == CheckAdmin(cu)
        u == UserDaoGet(users, username, og)
    IN  IF denied # "none" THEN Finish(r, denied)
        ELSE IF u.err # "none" THEN Finish(r, "db_error")
        ELSE IF u.bo = Nil THEN Finish(r, "not_found")
        ELSE IF username = AdminUserUsernname THEN Finish(r, "protected")
        ELSE Proceed(r, u.bo, InSystemGroup(cu))

\* actionCpEditUserSubmit: checkCpEditUser
EditUserCheck(r, username, oc, og) ==
    /\ At(r, "editUser", "handler")
    /\ CheckUserTarget(r, username, oc, og)
    /\ UNCHANGED <<groups, users, pcBoot, nReq, loggedIn, boot, dao>>

\* the entity actionCpEditUserSubmit hands to userDao.Update: the user it read,
\* with the fields of the form
EditedUser(user, pwd, name, group) ==
    [user EXCEPT
        !.Password = IF pwd # <<>> THEN encryptPassword(user.Username, pwd) ELSE @,
        !.Name = TrimSpace(name),
        !.GroupId = IF user.Username # AdminUserUsernname
                    THEN ToLower(TrimSpace(group)) ELSE @]

\* actionCpEditUserSubmit: the form and userDao.Update
EditUserWrite(r, password, password2, name, group, o) ==
    /\ At(r, "editUser", "write")
    /\ LET user == w[r].ent
           pwd == TrimSpace(password)
           pwd2 == TrimSpace(password2)
       IN  IF pwd # <<>> /\ pwd # pwd2
           THEN Finish(r, "invalid") /\ UNCHANGED users
           ELSE LET u == UserDaoUpdate(users, EditedUser(user, pwd, name, group), o)
                IN  /\ users' = u.table
                    /\ Respond(r, IF u.err # "none" THEN u.err ELSE "ok",
                               UpdateNote(users, colUserUsername, UserRowOf(user), u.err))
    /\ UNCHANGED <<groups, pcBoot, nReq, loggedIn, boot, dao>>

\* actionCpDeleteUserSubmit: checkCpDeleteUser
DeleteUserCheck(r, username, oc, og) ==
    /\ At(r, "deleteUser", "handler")
    /\ CheckUserTarget(r, username, oc, og)
    /\ UNCHANGED <<groups, users, pcBoot, nReq, loggedIn, boot, dao>>

\* actionCpDeleteUserSubmit: userDao.Delete
DeleteUserWrite(r, o) ==
    /\ At(r, "deleteUser", "write")
    /\ LET d == UserDaoDelete(users, w[r].ent, o)
       IN  /\ users' = d.table
           /\ Finish(r, IF d.err # "none" THEN d.err ELSE "ok")
    /\ UNCHANGED <<groups, pcBoot, nReq, loggedIn, boot, dao>>

(* ------------------------------------------------------------ specification *)
Next ==
    \/ \E o \in ReadOutcomes : InitGetGroup(o)
    \/ \E o \in CreateOutcomes : InitCreateGroup(o)
    \/ \E o \in ReadOutcomes : InitGetUser(o)
    \/ \E o \in CreateOutcomes : InitCreateUser(o)
    \/ Restart
    \/ \E u \in UsernameInputs, p \in PwdInputs, o \in ReadOutcomes : Login(u, p, o)
    \/ \E r \in Workers, op \in Ops, has \in BOOLEAN, o \in ReadOutcomes :
            \E uid \in (IF has THEN loggedIn ELSE {<<>>}) : Middleware(r, op, has, uid, o)
    \/ \E r \in Workers, o \in ReadOutcomes : ChangePasswordCheck(r, o)
    \/ \E r \in Workers, c \in PwdInputs, p \in PwdInputs, p2 \in PwdInputs,
          o \in WriteOutcomes : ChangePasswordWrite(r, c, p, p2, o)
    \/ \E r \in Workers, id \in GroupIdInputs, oc \in ReadOutcomes, og \in ReadOutcomes :
            CreateGroupCheck(r, id, oc, og)
    \/ \E r \in Workers, n \in NameInputs, o \in CreateOutcomes : CreateGroupWrite(r, n, o)
    \/ \E r \in Workers, id \in GroupIdInputs, o \in ReadOutcomes : EditGroupCheck(r, id, o)
    \/ \E r \in Workers, n \in NameInputs, o \in WriteOutcomes : EditGroupWrite(r, n, o)
    \/ \E r \in Workers, id \in GroupIdInputs, oc \in ReadOutcomes, og \in ReadOutcomes :
            DeleteGroupCheck(r, id, oc, og)
    \/ \E r \in Workers, o \in WriteOutcomes : DeleteGroupWrite(r, o)
    \/ \E r \in Workers, u \in UsernameInputs, oc \in ReadOutcomes, og \in ReadOutcomes :
            CreateUserCheck(r, u, oc, og)
    \/ \E r \in Workers, p \in PwdInputs, p2 \in PwdInputs, n \in UserNameInputs,
          g \in UserGroupInputs, o \in CreateOutcomes : CreateUserWrite(r, p, p2, n, g, o)
    \/ \E r \in Workers, u \in UsernameInputs, oc \in ReadOutcomes, og \in ReadOutcomes :
            EditUserCheck(r, u, oc, og)
    \/ \E r \in Workers, p \in PwdInputs, p2 \in PwdInputs, n \in UserNameInputs,
          g \in UserGroupInputs, o \in WriteOutcomes : EditUserWrite(r, p, p2, n, g, o)
    \/ \E r \in Workers, u \in UsernameInputs, oc \in ReadOutcomes, og \in ReadOutcomes :
            DeleteUserCheck(r, u, oc, og)
    \/ \E r \in Workers, o \in WriteOutcomes : DeleteUserWrite(r, o)

Spec == Init /\ [][Next]_vars

(* ------------------------------------------- serving specification *)
\* The request-serving phase on a store that is in use: initDaos has returned,
\* and the administrator has created a second group and an ordinary user in it.
GroupRow(gid, name) == (colGroupId :> gid) @@ (colGroupName :> name)
UserRow(username, name, gid) ==
    (colUserUsername :> username)
        @@ (colUserPassword :> encryptPassword(username, DefaultPassword))
        @@ (colUserName :> name) @@ (colUserGroupId :> gid)

ServeInit ==
    /\ groups = {SystemGroupRow, GroupRow(<<"g">>, <<"n">>)}
    /\ users = {AdminRow(SystemGroupId), UserRow(<<"u">>, <<"n">>, <<"g">>)}
    /\ pcBoot = "done"
    /\ nReq = 0
    /\ w = [r \in Workers |-> IdleWorker]
    /\ loggedIn = {}
    /\ boot = BootStart(groups, users, FALSE)
    /\ resp = NoResp
    /\ dao = NoCall
    /\ note = "none"

ServeNext ==
    \/ \E u \in UsernameInputs, p \in PwdInputs, o \in ReadOutcomes : Login(u, p, o)
    \/ \E r \in Workers, op \in Ops, has \in BOOLEAN, o \in ReadOutcomes :
            \E uid \in (IF has THEN loggedIn ELSE {<<>>}) : Middleware(r, op, has, uid, o)
    \/ \E r \in Workers, o \in ReadOutcomes : ChangePasswordCheck(r, o)
    \/ \E r \in Workers, c \in PwdInputs, p \in PwdInputs, p2 \in PwdInputs,
          o \in WriteOutcomes : ChangePasswordWrite(r, c, p, p2, o)
    \/ \E r \in Workers, id \in GroupIdInputs, oc \in ReadOutcomes, og \in ReadOutcomes :
            CreateGroupCheck(r, id, oc, og)
    \/ \E r \in Workers, n \in NameInputs, o \in CreateOutcomes : CreateGroupWrite(r, n, o)
    \/ \E r \in Workers, id \in GroupIdInputs, o \in ReadOutcomes : EditGroupCheck(r, id, o)
    \/ \E r \in Workers, n \in NameInputs, o \in WriteOutcomes : EditGroupWrite(r, n, o)
    \/ \E r \in Workers, id \in GroupIdInputs, oc \in ReadOutcomes, og \in ReadOutcomes :
            DeleteGroupCheck(r, id, oc, og)
    \/ \E r \in Workers, o \in WriteOutcomes : DeleteGroupWrite(r, o)
    \/ \E r \in Workers, u \in UsernameInputs, oc \in ReadOutcomes, og \in ReadOutcomes :
            CreateUserCheck(r, u, oc, og)
    \/ \E r \in Workers, p \in PwdInputs, p2 \in PwdInputs, n \in UserNameInputs,
          g \in UserGroupInputs, o \in CreateOutcomes : CreateUserWrite(r, p, p2, n, g, o)
    \/ \E r \in Workers, u \in UsernameInputs, oc \in ReadOutcomes, og \in ReadOutcomes :
            EditUserCheck(r, u, oc, og)
    \/ \E r \in Workers, p \in PwdInputs, p2 \in PwdInputs, n \in UserNameInputs,
          g \in UserGroupInputs, o \in WriteOutcomes : EditUserWrite(r, p, p2, n, g, o)
    \/ \E r \in Workers, u \in UsernameInputs, oc \in ReadOutcomes, og \in ReadOutcomes :
            DeleteUserCheck(r, u, oc, og)
    \/ \E r \in Workers, o \in WriteOutcomes : DeleteUserWrite(r, o)

ServeSpec == ServeInit /\ [][ServeNext]_vars


(* ------------------------------------------- DAO-level specification *)
\* GroupDao called directly, with every raw id up to MaxIdLen characters.
DaoIdInputs == StringsUpTo(IdAlphabet, MaxIdLen)
DaoNameInputs == {<<>>, <<"n">>, <<" ", "N">>}

Normalize(id) == ToLower(TrimSpace(id))

Stored(table, keyCol, v) == \E row \in table : row[keyCol] = v

DaoInit ==
    /\ groups = {}
    /\ users = {}
    /\ pcBoot = "getGroup"
    /\ nReq = 0
    /\ w = [r \in Workers |-> IdleWorker]
    /\ loggedIn = {}
    /\ boot = BootStart({}, {}, FALSE)
    /\ resp = NoResp
    /\ dao = NoCall
    /\ note = "none"

\* a caller's groupDao.Create(id, name)
DaoCreate(id, name, o) ==
    /\ LET c == GroupDaoCreate(groups, id, name, o)
       IN  /\ groups' = c.table
           /\ dao' = [op |-> "Create", id |-> id, name |-> name, o |-> o,
                      ok |-> c.ok, err |-> c.err,
                      stored |-> Stored(groups, colGroupId, id),
                      storedNorm |-> Stored(groups, colGroupId, Normalize(id)),
                      before |-> groups]
    /\ UNCHANGED <<users, pcBoot, nReq, w, loggedIn, boot, resp, note>>

\* a caller's groupDao.Get(id); prev is the call before it when that was a
\* Create of the same id (raw or normalized) that returned (true, nil)
DaoGet(id, o) ==
    /\ LET g == GroupDaoGet(groups, id, o)
       IN  dao' = [op |-> "Get", id |-> id, o |-> o, bo |-> g.bo, err |-> g.err,
                   stored |-> Stored(groups, colGroupId, id),
                   before |-> groups,
                   prev |-> IF dao.op = "Create" /\ dao.ok /\ dao.err = "none"
                                /\ id \in {dao.id, Normalize(dao.id)}
                            THEN [id |-> dao.id, name |-> dao.name] ELSE Nil]
    /\ UNCHANGED <<groups, users, pcBoot, nReq, w, loggedIn, boot, resp, note>>

DaoNext ==
    \/ \E id \in DaoIdInputs, n \in DaoNameInputs, o \in CreateOutcomes : DaoCreate(id, n, o)
    \/ \E id \in DaoIdInputs, o \in ReadOutcomes : DaoGet(id, o)

DaoSpec == DaoInit /\ [][DaoNext]_vars


(* ------------------------------------------------------------------ claims *)
HasSystemGroup == Stored(groups, colGroupId, SystemGroupId)

HasAdminInSystemGroup ==
    \E row \in users : /\ row[colUserUsername] = AdminUserUsernname
                       /\ row[colUserGroupId] = SystemGroupId

\* C1: once initDaos has returned normally from a start on a store with no
\* groups and no users, groupDao.Get(SystemGroupId) and
\* userDao.Get(AdminUserUsernname) are both non-nil and the admin's GroupId is
\* SystemGroupId.
C1_BootstrapFromEmptyStore ==
    (pcBoot = "done" /\ boot.empty) =>
        LET g == GroupDaoGet(groups, SystemGroupId, "ok")
            u == UserDaoGet(users, AdminUserUsernname, "ok")
        IN  g.bo # Nil /\ u.bo # Nil /\ u.bo.GroupId = SystemGroupId

\* C2: an initDaos run that follows a run which returned normally, on a store
\* that holds the system group and the admin user, calls no Create and changes
\* no row, and stops only if a lookup fails in the storage.
C2_BootstrapIdempotent ==
    /\ [](boot.again /\ boot.hadGroup /\ boot.hadUser =>
            /\ boot.creates = 0
            /\ ~boot.changed
            /\ pcBoot \notin {"createGroup", "createUser"}
            /\ (pcBoot = "panic" => boot.failed))
    /\ [][(boot.again /\ boot.hadGroup /\ boot.hadUser /\ pcBoot \notin {"done", "panic"})
            => (groups' = groups /\ users' = users)]_vars

C2_SecondRunDone ==
    boot.again /\ boot.hadGroup /\ boot.hadUser /\ pcBoot = "done"

\* C3: when a Create call of initDaos has not succeeded (it returned an error
\* or reported that no row was inserted), initDaos has aborted.
C3_CreationFailureIsFatal ==
    boot.createFailed => pcBoot = "panic"

\* C4: in every state after initDaos has returned, the system group is stored.
C4_SystemGroupAlwaysExists ==
    pcBoot = "done" => HasSystemGroup

\* C5: in every state after initDaos has returned, whatever the store held
\* before, the admin user is stored and its GroupId is SystemGroupId.
C5_AdminAlwaysInSystemGroup ==
    pcBoot = "done" => HasAdminInSystemGroup

\* C6 as stated: when no group is stored under id, Create(id, name) returns
\* (true, nil), and a following Get(id) with the same argument returns a group
\* whose Id is id and whose Name is name (storage failures set aside).
C6_CreateThenGetSameArgument ==
    /\ (dao.op = "Create" /\ ~dao.stored /\ dao.o = "ok") => (dao.ok /\ dao.err = "none")
    /\ (dao.op = "Get" /\ dao.prev # Nil /\ dao.o = "ok" /\ dao.id = dao.prev.id) =>
            (dao.bo # Nil /\ dao.bo.Id = dao.prev.id /\ dao.bo.Name = dao.prev.name)

\* C6 as amended: when no group is stored under the normalized id
\* ToLower(TrimSpace(id)) and the storage executes the insert, Create(id, name)
\* returns (true, nil) and adds exactly the row (normalized id, trimmed name);
\* a following Get of the normalized id returns a group whose Id is the
\* normalized id and whose Name is TrimSpace(name).
C6_CreateThenGetNormalized ==
    /\ (dao.op = "Create" /\ ~dao.storedNorm /\ dao.o = "ok") =>
            /\ dao.ok /\ dao.err = "none"
            /\ groups = dao.before \cup
                    {(colGroupId :> Normalize(dao.id)) @@ (colGroupName :> TrimSpace(dao.name))}
    /\ (dao.op = "Get" /\ dao.prev # Nil /\ dao.o = "ok" /\ dao.id = Normalize(dao.prev.id)) =>
            dao.bo = [Id |-> Normalize(dao.prev.id), Name |-> TrimSpace(dao.prev.name)]

C6_GetAfterCreateOfRawId ==
    /\ dao.op = "Get" /\ dao.prev # Nil /\ dao.o = "ok"
    /\ dao.prev.id # Normalize(dao.prev.id)
    /\ dao.prev.name # TrimSpace(dao.prev.name)
    /\ dao.id = Normalize(dao.prev.id)
    /\ dao.bo # Nil

\* C7: Create with an id whose normalized form is the id of a stored group
\* returns false with a non-nil error, which is the duplicate-key error whenever
\* the storage executed the insert, and leaves the table as it was.
C7_DuplicateCreateRejected ==
    (dao.op = "Create" /\ dao.storedNorm) =>
        /\ ~dao.ok
        /\ dao.err # "none"
        /\ (dao.o # "fail" => dao.err = "duplicate")
        /\ groups = dao.before

C7_DuplicateOfRawId ==
    /\ dao.op = "Create" /\ dao.storedNorm /\ dao.err = "duplicate"
    /\ dao.id # Normalize(dao.id)

\* C8: Get returns (nil, nil) when no row has the id, (nil, err) with err
\* non-nil when the lookup fails, never a group together with an error, and
\* leaves the table unchanged.
C8_GetNotFoundVersusFailure ==
    dao.op = "Get" =>
        /\ (dao.o = "ok" /\ ~dao.stored) => (dao.bo = Nil /\ dao.err = "none")
        /\ dao.o = "fail" => (dao.bo = Nil /\ dao.err # "none")
        /\ ~(dao.bo # Nil /\ dao.err # "none")
        /\ groups = dao.before

C8_FailedLookupOfStoredId ==
    dao.op = "Get" /\ dao.o = "fail" /\ dao.stored /\ dao.err = "storage"

\* C9: every stored password is encryptPassword(username, plaintext) for the
\* username of its row; no row holds a plaintext.
PlainPasswords == {TrimSpace(p) : p \in PwdInputs}

C9_StoredPasswordsEncoded ==
    \A row \in users :
        \E p \in PlainPasswords :
            row[colUserPassword] = encryptPassword(row[colUserUsername], p)

C9_PasswordChanged ==
    /\ resp = [op |-> "changePassword", out |-> "ok"]
    /\ \E row \in users :
            /\ row[colUserUsername] # AdminUserUsernname
            /\ row[colUserPassword] = encryptPassword(row[colUserUsername], <<"q">>)

\* C10: no table ever holds two rows with one key; a create request whose
\* existence check passed and whose key is stored by the time of its Create
\* inserts nothing and answers with the error of the Create (the duplicate-key
\* error, or the storage's error when the call itself failed); a create-user
\* request may instead be turned down for its password before it calls Create.
UniqueKeys ==
    /\ \A a, b \in groups : a[colGroupId] = b[colGroupId] => a = b
    /\ \A a, b \in users : a[colUserUsername] = b[colUserUsername] => a = b

LateCreate(r) ==
    /\ w[r].pc = "write" /\ w'[r].pc = "idle" /\ pcBoot' = "done"
    /\ \/ w[r].op = "createGroup" /\ Stored(groups, colGroupId, w[r].ent.Id)
       \/ w[r].op = "createUser" /\ Stored(users, colUserUsername, w[r].ent.Username)

C10_ConcurrentCreateOneRow ==
    /\ []UniqueKeys
    /\ [][\A r \in Workers :
            LateCreate(r) =>
                /\ groups' = groups /\ users' = users
                /\ resp'.op = w[r].op
                /\ resp'.out \in IF w[r].op = "createGroup"
                                 THEN {"duplicate", "storage"}
                                 ELSE {"duplicate", "storage", "invalid"}]_vars

C10_DuplicateSurfaced ==
    /\ resp = [op |-> "createGroup", out |-> "duplicate"]
    /\ Stored(groups, colGroupId, <<"g">>)

\* C11: a change-password or edit-user request that reaches userDao.Update is
\* never turned down because another request wrote the same user in between
\* (it answers ok, or the storage's error when the call itself failed, or is
\* refused for its form before the Update); when it answers ok and a row is
\* stored under the username, that row is afterwards, in every column, the
\* entity this request passed: the user it read with the fields of its own
\* form, whatever the row held before; no other row and no group changes.
UserUpdateStep(r) ==
    /\ w[r].pc = "write" /\ w'[r].pc = "idle" /\ pcBoot' = "done"
    /\ w[r].op \in {"changePassword", "editUser"}

PassedEntities(r) ==
    IF w[r].op = "changePassword"
    THEN {ChangedPassword(w[r].ent, TrimSpace(p)) : p \in PwdInputs}
    ELSE {EditedUser(w[r].ent, TrimSpace(p), n, g) :
            p \in PwdInputs, n \in UserNameInputs, g \in UserGroupInputs}

C11_LastWriteWins ==
    [][\A r \in Workers :
        UserUpdateStep(r) =>
            /\ resp'.op = w[r].op
            /\ resp'.out \in {"ok", "storage", "invalid"}
            /\ groups' = groups
            /\ resp'.out # "ok" => users' = users
            /\ resp'.out = "ok" =>
                    \E e \in PassedEntities(r) :
                        users' = {x \in users : x[colUserUsername] # e.Username}
                                    \cup (IF Stored(users, colUserUsername, e.Username)
                                          THEN {UserRowOf(e)} ELSE {})]_vars

\* a change-password request has replaced the row that an edit-user request
\* stored after the change-password request had read the user
C11_LaterWriterOverwrote ==
    /\ resp = [op |-> "changePassword", out |-> "ok"]
    /\ note = "lost"

\* C12: toBo(toGbo(g)) = g for every Group g handed to Create, as given and as
\* normalized; toGbo(toBo(bag)) = bag for every bag the engine fetches, which
\* holds the two group fields and nothing else; Get returns toBo of the fetched
\* bag; nil maps to nil in both directions.
C12_GroupRoundTrip ==
    /\ GroupToBo(Nil) = Nil
    /\ GroupToGbo(Nil) = Nil
    /\ dao.op = "Create" =>
            \A g \in {[Id |-> dao.id, Name |-> dao.name],
                       [Id |-> Normalize(dao.id), Name |-> TrimSpace(dao.name)]} :
                /\ GroupToBo(GroupToGbo(g)) = g
                /\ DOMAIN GroupToGbo(g) = {fieldGroupId, fieldGroupName}
    /\ dao.op = "Get" =>
            LET bag == GdaoFetchOne(dao.before, colGroupId, dao.id,
                                    mapFieldToColNameGroup, dao.o).gbo
            IN  /\ dao.bo = GroupToBo(bag)
                /\ GroupToGbo(GroupToBo(bag)) = bag
                /\ bag # Nil => DOMAIN bag = {fieldGroupId, fieldGroupName}

\* a stored group with different id and name has been read back
C12_GroupReadBack ==
    /\ dao.op = "Get" /\ dao.bo # Nil
    /\ dao.bo.Id # dao.bo.Name
    /\ GroupToGbo(dao.bo)[fieldGroupName] = dao.bo.Name

\* C13: a request is being handled only when initDaos has returned normally in
\* this process; while initDaos runs and after it has aborted no request is
\* accepted, no login or handler step is taken and no response is sent; within
\* one process initDaos only moves forward through its steps, one at a time,
\* and starts again only with a new process.
BootPosition(pc) ==
    CASE pc = "getGroup" -> 1 [] pc = "createGroup" -> 2 [] pc = "getUser" -> 3
      [] pc = "createUser" -> 4 [] OTHER -> 5

AdminOps == {"createGroup", "deleteGroup", "createUser", "editUser", "deleteUser"}

StoredInSystemGroup(username) ==
    \E row \in users : /\ row[colUserUsername] = username
                        /\ row[colUserGroupId] = SystemGroupId

C14_AdminOnlyWrites ==
    /\ [](\A r \in Workers : (w[r].pc = "write" /\ w[r].op \in AdminOps) => w[r].adm)
    /\ [][\A r \in Workers :
            (w[r].pc = "handler" /\ w[r].op \in AdminOps /\ w'[r].pc = "write")
                => StoredInSystemGroup(w[r].uid)]_vars
    /\ [][\A r \in Workers :
            (w[r].pc = "handler" /\ w'[r] # w[r]) => (groups' = groups /\ users' = users)]_vars
    /\ [][(pcBoot = "done" /\ (groups' # groups \/ users' # users)) =>
            \E r \in Workers :
                /\ w[r].pc = "write" /\ w'[r].pc = "idle"
                /\ w[r].op \in AdminOps => w[r].adm]_vars

\* the ordinary user u, stored outside the system group, has asked to create
\* a user and was refused
C14_OrdinaryUserRefused ==
    /\ resp = [op |-> "createUser", out |-> "no_permission"]
    /\ <<"u">> \in loggedIn
    /\ Stored(users, colUserUsername, <<"u">>)
    /\ ~StoredInSystemGroup(<<"u">>)

\* C15: no change-password or edit-user request reaches userDao.Update with
\* the user AdminUserUsernname, and no step of such a request changes the row
\* stored under AdminUserUsernname (its Password, Name and GroupId stay as
\* they were), whoever the requester is.
AdminRows(table) == {row \in table : row[colUserUsername] = AdminUserUsernname}

C15_AdminNeverModified ==
    /\ [](\A r \in Workers :
            (w[r].pc = "write" /\ w[r].op \in {"changePassword", "editUser"})
                => w[r].ent.Username # AdminUserUsernname)
    /\ [][\A r \in Workers :
            (w[r].op \in {"changePassword", "editUser"} /\ w'[r] # w[r])
                => AdminRows(users') = AdminRows(users)]_vars

\* the admin, logged in, has asked to edit the admin account and was refused
C15_AdminEditRefused ==
    /\ resp = [op |-> "editUser", out |-> "protected"]
    /\ AdminUserUsernname \in loggedIn
    /\ AdminRows(users) = {AdminRow(SystemGroupId)}

\* C16: an Update keyed on an id or username that has no row reports no row
\* changed and no error and returns the table as it was; a handler whose
\* entity is no longer stored when it calls Update (edit-group, edit-user,
\* change-password) leaves both tables unchanged, so the entity does not come
\* back, and answers ok unless the storage call itself fails (or, for the two
\* user handlers, the form is refused before the Update).
UpdateOnMissingKey(r) ==
    /\ w[r].pc = "write" /\ w'[r].pc = "idle" /\ pcBoot' = "done"
    /\ \/ w[r].op = "editGroup" /\ ~Stored(groups, colGroupId, w[r].ent.Id)
       \/ /\ w[r].op \in {"editUser", "changePassword"}
          /\ ~Stored(users, colUserUsername, w[r].ent.Username)

C16_UpdateOfMissingKey ==
    /\ [](\A id \in {Normalize(i) : i \in GroupIdInputs}, n \in NameInputs :
            ~Stored(groups, colGroupId, id) =>
                LET u == GroupDaoUpdate(groups, [Id |-> id, Name |-> n], "ok")
                IN  ~u.ok /\ u.err = "none" /\ u.table = groups)
    /\ [][\A r \in Workers :
            UpdateOnMissingKey(r) =>
                /\ groups' = groups /\ users' = users
                /\ resp'.op = w[r].op
                /\ resp'.out \in IF w[r].op = "editGroup" THEN {"ok", "storage"}
                                  ELSE {"ok", "storage", "invalid"}
                /\ resp'.out = "ok" <=> note' = "missed"]_vars

\* an edit of group g has answered ok although g was deleted after the
\* handler had read it; g is not stored
C16_EditOfDeletedGroupSucceeds ==
    /\ resp = [op |-> "editGroup", out |-> "ok"]
    /\ note = "missed"
    /\ ~Stored(groups, colGroupId, <<"g">>)

\* C17: a delete-group request removes at most the row of the group it read
\* and leaves every user row as it was; create-user and edit-user store the
\* GroupId of the form whether or not a group has that id, so a user may name
\* a group that is not stored; for the admin user the named group is always
\* stored once initDaos has returned.
UsersOfMissingGroups ==
    {row \in users : ~Stored(groups, colGroupId, row[colUserGroupId])}

DeleteGroupKeepsUsers ==
    [][\A r \in Workers :
        (w[r].op = "deleteGroup" /\ w'[r] # w[r] /\ pcBoot' = "done") =>
            /\ users' = users
            /\ groups' \subseteq groups
            /\ \A row \in groups \ groups' :
                    w[r].pc = "write" /\ row[colGroupId] = w[r].ent.Id]_vars

AdminGroupStored ==
    pcBoot = "done" => AdminRows(UsersOfMissingGroups) = {}

C17_IntegrityOnlyForAdmin ==
    DeleteGroupKeepsUsers /\ []AdminGroupStored

\* the ordinary user u names group g, which a delete-group request has removed
C17_UserOfDeletedGroup ==
    /\ resp = [op |-> "deleteGroup", out |-> "ok"]
    /\ \E row \in UsersOfMissingGroups :
            row[colUserUsername] = <<"u">> /\ row[colUserGroupId] = <<"g">>

====
